---- MODULE Spec2Model ----
(***************************************************************************)
(* A model of the scribbles package: the point generators of               *)
(* scribbles/core.py (LinearScribble, BunchedScribble, CurvyScribble) and  *)
(* the measurement functions and PointTransformer of scribbles/points.py,  *)
(* and the colour functions of scribbles/render.py.                        *)
(*                                                                         *)
(* Real numbers are held on a grid: the real q is the integer q * Unit,    *)
(* and every product, quotient and square root is rounded to the grid, as  *)
(* the code's floats are rounded to the nearest double.  Angles are whole  *)
(* degrees, multiples of 15, so that cos and sin are a table.              *)
(***************************************************************************)
EXTENDS Integers, Sequences, FiniteSets, TLC

VARIABLES
    \* the generator object (LinearScribble.__init__)
    kind, origin, radius_modifier_fn, angle_modifier_fn,
    \* the running get_points call: its position, arguments and locals
    pc, initial_radius, max_length, steps,
    angle, radius, length, point_pool, points, n_steps, new_terminus_index,
    fn_calls, result,
    \* the PointTransformer object and its last call
    fns, registered, last, targ, tin, tout, tprev, ret,
    \* a call's input and output: a pure function's, or those of a get_points
    \* call that returned, kept while the generator is called again
    fin, fout

genVars == <<kind, origin, radius_modifier_fn, angle_modifier_fn,
             pc, initial_radius, max_length, steps,
             angle, radius, length, point_pool, points, n_steps,
             new_terminus_index, fn_calls, result>>
pipeVars == <<fns, registered, last, targ, tin, tout, tprev, ret>>
funVars == <<fin, fout>>
vars == <<genVars, pipeVars, funVars>>

(***************************************************************************)
(* Arithmetic on the grid.                                                 *)
(***************************************************************************)

\* cos of 0, 15, 30, 45, 60, 75 and 90 degrees, in grid units.
CosTable == <<100, 97, 87, 71, 50, 26, 0>>

\* The grid value of the real 1.0 (cos of 0 degrees).
Unit == CosTable[1]

Abs(a) == IF a < 0 THEN -a ELSE a

Max(a, b) == IF a >= b THEN a ELSE b

Min(a, b) == IF a <= b THEN a ELSE b

\* a / b for b > 0, rounded to the nearest integer.
Div(a, b) == (2 * a + b) \div (2 * b)

\* The product of two grid reals.
Mul(a, b) == Div(a * b, Unit)

\* cos(angle * RADIANS) for an angle in degrees (a multiple of 15).
cos(a) ==
    LET m == a % 360
        tab(d) == CosTable[(d \div 15) + 1]
    IN  IF m <= 90 THEN tab(m)
        ELSE IF m <= 180 THEN -tab(180 - m)
        ELSE IF m <= 270 THEN -tab(m - 180)
        ELSE tab(360 - m)

\* sin(angle * RADIANS) for an angle in degrees (a multiple of 15).
sin(a) == cos(a - 90)

RECURSIVE SqrtSearch(_, _, _)
SqrtSearch(x, lo, hi) ==
    IF lo >= hi THEN lo
    ELSE LET mid == (lo + hi + 1) \div 2
         IN  IF mid * mid <= x THEN SqrtSearch(x, mid, hi)
             ELSE SqrtSearch(x, lo, mid - 1)

\* math.sqrt, rounded down to the grid.
sqrt(x) == SqrtSearch(x, 0, Min(x, 46340))

(***************************************************************************)
(* scribbles/points.py: the measurement functions.                         *)
(***************************************************************************)

\* A distance that leaves out the x term.
distance_vertical(point_1, point_2) ==
    sqrt((point_2[2] - point_1[2]) * (point_2[2] - point_1[2]))

\* The squares are of grid values, so their root is a grid value.
distance(point_1, point_2) ==
    sqrt((point_2[1] - point_1[1]) * (point_2[1] - point_1[1])
         + (point_2[2] - point_1[2]) * (point_2[2] - point_1[2]))

\* What indexing an empty list raises.
IndexError == "IndexError"

\* A loop that stops one point early and leaves out the last distance.
RECURSIVE total_length_loop_short(_, _, _)
total_length_loop_short(total, point_1, rest) ==
    IF Len(rest) <= 1 THEN total
    ELSE total_length_loop_short(total + distance(point_1, Head(rest)),
                                 Head(rest), Tail(rest))

RECURSIVE total_length_loop(_, _, _)
total_length_loop(total, point_1, rest) ==
    IF rest = <<>> THEN total
    ELSE total_length_loop(total + distance(point_1, Head(rest)),
                           Head(rest), Tail(rest))

\* point_1 = points[0] raises on a list without a first element.
total_length_raises(pts) == Len(pts) = 0

total_length(pts) ==
    IF total_length_raises(pts) THEN IndexError
    ELSE total_length_loop(0, pts[1], Tail(pts))

\* lambda d, pt: min(d, distance(origin, pt)): the nearest, not the farthest.
max_distance_step_min(d, org, pt) == Min(d, distance(org, pt))

\* lambda d, pt: max(d, distance(origin, pt))
max_distance_step(d, org, pt) == Max(d, distance(org, pt))

\* reduce(lambda, points, 0)
RECURSIVE max_distance_reduce(_, _, _)
max_distance_reduce(d, org, rest) ==
    IF rest = <<>> THEN d
    ELSE max_distance_reduce(max_distance_step(d, org, Head(rest)), org,
                             Tail(rest))

max_distance(pts, org) == max_distance_reduce(0, org, pts)

(***************************************************************************)
(* scribbles/core.py: the walk and the curve helpers.                      *)
(***************************************************************************)

\* A radius step that keeps the sign of r + k.
radius_fn_signed(fn, r, k) == r + k

\* A step function is the set of offsets it may add (one offset: the
\* function is deterministic), and whether it takes the absolute value.
radius_fn(fn, r, k) == IF fn.abs THEN Abs(r + k) ELSE r + k

angle_fn(fn, a, j) == a + j

\* A walk that steps before it computes the point.
get_new_point_stepped(org, fn_r, fn_a, a, r, k, j) ==
    LET x == Mul(radius_fn(fn_r, r, k), cos(angle_fn(fn_a, a, j))) + org[1]
        y == Mul(radius_fn(fn_r, r, k), sin(angle_fn(fn_a, a, j))) + org[2]
    IN  [new_point |-> <<x, y>>,
         new_angle |-> angle_fn(fn_a, a, j),
         new_radius |-> radius_fn(fn_r, r, k)]

\* k and j are what the two step functions add in this call.
get_new_point(org, fn_r, fn_a, a, r, k, j) ==
    LET x == Mul(r, cos(a)) + org[1]
        y == Mul(r, sin(a)) + org[2]
    IN  [new_point |-> <<x, y>>,
         new_angle |-> angle_fn(fn_a, a, j),
         new_radius |-> radius_fn(fn_r, r, k)]

MINIMUM_STEPS == 10

\* A _min_steps that takes the steps it is given.
min_steps_unclamped(s) == s

\* _min_steps: max(steps, self.MINIMUM_STEPS)
min_steps(s) == Max(s, MINIMUM_STEPS)

\* One coordinate of the curve at t = i / n: the quadratic polynomial with
\* (1-t) = (n-i)/n, over the common denominator n^2.
gen_coord(terminus_1, control, terminus_2, axis, i, n) ==
    Div(terminus_1[axis] * (n - i) * (n - i)
        + control[axis] * 2 * (n - i) * i
        + terminus_2[axis] * i * i, n * n)

\* range(1, n_steps): a curve that stops one step early.
bezier_range_short(n) == 1..(n - 1)

\* range(1, n_steps + 1)
bezier_range(n) == 1..n

bezier_curve_points(terminus_1, control, terminus_2, n) ==
    <<terminus_1>> \o
    [i \in bezier_range(n) |->
        <<gen_coord(terminus_1, control, terminus_2, 1, i, n),
          gen_coord(terminus_1, control, terminus_2, 2, i, n)>>]

\* A loop that also discards a point when the curve fits exactly.
RECURSIVE shorten_loop_ge(_, _, _)
shorten_loop_ge(pts, curve_length, budget) ==
    IF Len(pts) > 0 /\ curve_length >= budget
    THEN LET removed == pts[Len(pts)]
             rest == SubSeq(pts, 1, Len(pts) - 1)
         IN  shorten_loop_ge(rest,
                             IF Len(rest) > 0
                             THEN curve_length - distance(rest[Len(rest)], removed)
                             ELSE curve_length,
                             budget)
    ELSE [points |-> pts, curve_length |-> curve_length]

RECURSIVE shorten_loop(_, _, _)
shorten_loop(pts, curve_length, budget) ==
    IF Len(pts) > 0 /\ curve_length > budget
    THEN LET removed == pts[Len(pts)]
             rest == SubSeq(pts, 1, Len(pts) - 1)
         IN  shorten_loop(rest,
                          IF Len(rest) > 0
                          THEN curve_length - distance(rest[Len(rest)], removed)
                          ELSE curve_length,
                          budget)
    ELSE [points |-> pts, curve_length |-> curve_length]

\* A shortening that gives up the whole curve: return [], 0
shorten_curve_dropped(pts, curve_length, budget) ==
    [points |-> <<>>, curve_length |-> 0]

\* A shortening that returns the curve as it came.
shorten_curve_not(pts, curve_length, budget) ==
    [points |-> pts, curve_length |-> curve_length]

shorten_curve(pts, curve_length, budget) ==
    LET r == shorten_loop(pts, curve_length, budget)
    IN  IF Len(r.points) > 0 THEN r
        ELSE [points |-> <<>>, curve_length |-> 0]

\* A shortening that pops from a copy: the list passed in stays as it was.
points_after_shorten_copy(pts, curve_length, budget) == pts

\* The list passed to _shorten_curve, after the call: points.pop() takes the
\* points off the caller's list.
points_after_shorten(pts, curve_length, budget) ==
    shorten_loop(pts, curve_length, budget).points

\* Whether the list returned is the list passed in (return points,
\* curve_length) and not a new one (return [], 0).
shorten_returns_passed(pts, curve_length, budget) ==
    Len(shorten_loop(pts, curve_length, budget).points) > 0

\* The pool refill: draw walk vertices until the pool holds 3.
RECURSIVE fill_pool(_, _, _, _, _, _, _, _)
fill_pool(org, fn_r, fn_a, pool, a, r, ks, js) ==
    IF Len(pool) >= 3 THEN [pool |-> pool, angle |-> a, radius |-> r]
    ELSE LET np == get_new_point(org, fn_r, fn_a, a, r, Head(ks), Head(js))
         IN  fill_pool(org, fn_r, fn_a, Append(pool, np.new_point),
                       np.new_angle, np.new_radius, Tail(ks), Tail(js))

\* A pop that takes terminus_1 off the pool and leaves the control point.
pop_one(pool) == Tail(pool)

\* terminus_1, control = point_pool.pop(0), point_pool.pop(0): the pool
\* after the two pops.
pop_two(pool) == Tail(Tail(pool))

\* A cut at three quarters of the curve: int((n_steps + 1) * 3 / 4) - 1
terminus_index_three_quarters(n) == ((n + 1) * 3) \div 4 - 1

\* int((n_steps + 1) * 5 / 6) - 1
terminus_index(n) == ((n + 1) * 5) \div 6 - 1

(***************************************************************************)
(* The generators as a state machine: one action per call and per turn of  *)
(* the while loop of get_points.                                           *)
(***************************************************************************)

None == "None"
ValueError == "ValueError"

\* The most points a call is followed to: more than the longest call that
\* returns collects (a CurvyScribble of radius 10 on a budget of 63 returns
\* some 230 points), so only a loop that goes on for ever is cut off.
MaxPoints == 260

Kinds == {"Linear", "Bunched", "Curvy"}

Origins == {<<0, 0>>, <<10 * Unit, -5 * Unit>>}

\* The step functions a generator is built with: the tests' constant radius
\* with a fixed angle increment, a walk that never moves, the tests' growing
\* radius, two random walks of the default shape abs(r + U), a + U, and
\* abs(r - 10) with a fixed angle, which from radius 15 moves once (to radius
\* 5) and then stays where it is, and from radius 10 goes back and forth
\* between radius 0 and radius 10.
StepFns ==
    { <<[deltas |-> {0}, abs |-> FALSE], [deltas |-> {15}]>>,
      <<[deltas |-> {0}, abs |-> FALSE], [deltas |-> {0}]>>,
      <<[deltas |-> {-10 * Unit}, abs |-> TRUE], [deltas |-> {0}]>>,
      <<[deltas |-> {5 * Unit}, abs |-> FALSE], [deltas |-> {45}]>>,
      <<[deltas |-> {-3 * Unit, 3 * Unit}, abs |-> TRUE], [deltas |-> {90}]>>,
      <<[deltas |-> {0}, abs |-> TRUE], [deltas |-> {45, 90}]>> }

\* Whether the step functions draw at random.
IsRandom(fn_r, fn_a) == Cardinality(fn_r.deltas) * Cardinality(fn_a.deltas) > 1

\* The longest budget a random walk is run with (the tree of its runs grows
\* with the budget).
RandomBudget == 20 * Unit

\* The (initial_radius, max_length) pairs a call is made with.  The last
\* three budgets are met exactly by the walk of radius 10 and increment 15:
\* 62.80 is the length of its 24 chords (the tests' full circle), 10.33 that
\* of its first two Bezier curves and 6.74 that of its first two cut curves.
CallArgs ==
    { <<10 * Unit, 63 * Unit>>, <<5 * Unit, 20 * Unit>>, <<10 * Unit, 3 * Unit>>,
      <<0, 20 * Unit>>, <<10 * Unit, 0>>, <<-5 * Unit, 20 * Unit>>,
      <<5 * Unit, -1 * Unit>>, <<15 * Unit, 20 * Unit>>,
      <<10 * Unit, 6280>>, <<10 * Unit, 1033>>, <<10 * Unit, 674>> }

StepsArgs == {5, 10, 11}

\* A check that lets a zero radius through.
valid_radius_nonneg(r) == ~(r < 0)

valid_radius(r) == ~(r <= 0)

\* A check that lets a zero budget through.
valid_length_nonneg(l) == ~(l < 0)

valid_length(l) == ~(l <= 0)

GenInit ==
    /\ kind \in Kinds
    /\ origin \in Origins
    /\ \E f \in StepFns : radius_modifier_fn = f[1] /\ angle_modifier_fn = f[2]
    /\ pc = "idle"
    /\ initial_radius = 0 /\ max_length = 0 /\ steps = 0
    /\ angle = 0 /\ radius = 0 /\ length = 0
    /\ point_pool = <<>> /\ points = <<>>
    /\ n_steps = 0 /\ new_terminus_index = 0
    /\ fn_calls = 0
    /\ result = None

objVars == <<kind, origin, radius_modifier_fn, angle_modifier_fn>>

\* A call that goes on from the angle the call before it had reached.
start_angle_kept(previous) == previous

\* angle = 0: every call starts its walk at angle 0, whatever the angle
\* the call before it had reached.
start_angle(previous) == 0

\* get_points(a[1], a[2], s) up to the while loop: the argument checks and
\* the locals.
StartCall(a, s) ==
    /\ pc \in {"idle", "done", "error"}
    /\ IsRandom(radius_modifier_fn, angle_modifier_fn) => a[2] <= RandomBudget
    /\ initial_radius' = a[1]
    /\ max_length' = a[2]
    /\ steps' = s
    /\ fn_calls' = 0
    /\ point_pool' = <<>>
    /\ points' = <<>>
    /\ length' = 0
    /\ angle' = start_angle(angle)
    /\ IF valid_radius(a[1]) /\ valid_length(a[2])
       THEN /\ pc' = "loop"
            /\ result' = None
            /\ radius' = a[1]
            /\ n_steps' = IF kind = "Linear" THEN 0 ELSE min_steps(s)
            /\ new_terminus_index' =
                   IF kind = "Curvy" THEN terminus_index(min_steps(s)) ELSE 0
       ELSE /\ pc' = "error"
            /\ result' = ValueError
            /\ radius' = 0
            /\ n_steps' = 0
            /\ new_terminus_index' = 0
    /\ UNCHANGED <<objVars, pipeVars>>

\* The steps arguments of a generator (LinearScribble takes none).
StepsOf(k) == IF k = "Linear" THEN {0} ELSE StepsArgs

GetPoints ==
    \E a \in CallArgs, s \in StepsOf(kind) :
        StartCall(a, s) /\ UNCHANGED funVars

\* A loop that never breaks on the budget.
exceeds_never(new_length, budget) == FALSE

\* A loop that breaks already when the budget is met exactly.
exceeds_or_equal(new_length, budget) == new_length >= budget

\* if new_length > max_length: break
exceeds(new_length, budget) == new_length > budget

\* One turn of LinearScribble.get_points' loop.
LinearLoop ==
    /\ pc = "loop" /\ kind = "Linear"
    /\ length < max_length
    /\ Len(points) < MaxPoints
    /\ \E k \in radius_modifier_fn.deltas, j \in angle_modifier_fn.deltas :
        LET np == get_new_point(origin, radius_modifier_fn, angle_modifier_fn,
                                angle, radius, k, j)
            new_length == IF Len(points) > 0
                          THEN length + distance(points[Len(points)], np.new_point)
                          ELSE length
        IN  /\ angle' = np.new_angle
            /\ radius' = np.new_radius
            /\ fn_calls' = fn_calls + 2
            /\ IF Len(points) > 0 /\ exceeds(new_length, max_length)
               THEN /\ pc' = "done"
                    /\ result' = points
                    /\ UNCHANGED <<points, length>>
               ELSE /\ points' = Append(points, np.new_point)
                    /\ length' = new_length
                    /\ UNCHANGED <<pc, result>>
    /\ UNCHANGED <<objVars, initial_radius, max_length, steps, point_pool,
                   n_steps, new_terminus_index, pipeVars, funVars>>

\* The while condition fails: return points.
LoopExit ==
    /\ pc = "loop"
    /\ ~(length < max_length)
    /\ pc' = "done"
    /\ result' = points
    /\ UNCHANGED <<objVars, initial_radius, max_length, steps, angle, radius,
                   length, point_pool, points, n_steps, new_terminus_index,
                   fn_calls, pipeVars, funVars>>

\* A loop that never takes the shortening branch.
exceeds_remaining_never(curve_length, remaining) == FALSE

\* A loop that shortens already when the curve meets the budget exactly.
exceeds_remaining_or_equal(curve_length, remaining) ==
    curve_length >= remaining

\* if curve_length > remaining
exceeds_remaining(curve_length, remaining) == curve_length > remaining

\* The offsets the step functions add while the pool is refilled.
Draws(deltas, pool) == [1..(3 - Len(pool)) -> deltas]

\* One turn of BunchedScribble.get_points' loop.
BunchedLoop ==
    /\ pc = "loop" /\ kind = "Bunched"
    /\ length < max_length
    /\ Len(points) < MaxPoints
    /\ \E ks \in Draws(radius_modifier_fn.deltas, point_pool),
          js \in Draws(angle_modifier_fn.deltas, point_pool) :
        LET filled == fill_pool(origin, radius_modifier_fn, angle_modifier_fn,
                                point_pool, angle, radius, ks, js)
            terminus_1 == filled.pool[1]
            control == filled.pool[2]
            pool == pop_two(filled.pool)
            terminus_2 == pool[1]
            new_points == bezier_curve_points(terminus_1, control, terminus_2, n_steps)
            remaining == max_length - length
            curve_length == total_length(new_points)
            short == shorten_curve(new_points, curve_length, remaining)
        IN  /\ angle' = filled.angle
            /\ radius' = filled.radius
            /\ fn_calls' = fn_calls + 2 * (3 - Len(point_pool))
            /\ point_pool' = pool
            /\ IF exceeds_remaining(curve_length, remaining)
               THEN /\ length' = length + short.curve_length
                    /\ points' = points \o short.points
                    /\ pc' = "done"
                    /\ result' = points \o short.points
               ELSE /\ length' = length + curve_length
                    /\ points' = points \o new_points
                    /\ UNCHANGED <<pc, result>>
    /\ UNCHANGED <<objVars, initial_radius, max_length, steps, n_steps,
                   new_terminus_index, pipeVars, funVars>>

\* A slice that stops one point short: new_points[:new_terminus_index]
cut_curve_short(new_points, index) ==
    SubSeq(new_points, 1, Min(index, Len(new_points)))

\* new_points[:new_terminus_index + 1]
cut_curve(new_points, index) == SubSeq(new_points, 1, Min(index + 1, Len(new_points)))

\* One turn of CurvyScribble.get_points' loop.
CurvyLoop ==
    /\ pc = "loop" /\ kind = "Curvy"
    /\ length < max_length
    /\ Len(points) < MaxPoints
    /\ \E ks \in Draws(radius_modifier_fn.deltas, point_pool),
          js \in Draws(angle_modifier_fn.deltas, point_pool) :
        LET filled == fill_pool(origin, radius_modifier_fn, angle_modifier_fn,
                                point_pool, angle, radius, ks, js)
            terminus_1 == filled.pool[1]
            control == filled.pool[2]
            pool == pop_two(filled.pool)
            terminus_2 == pool[1]
            new_points == cut_curve(
                bezier_curve_points(terminus_1, control, terminus_2, n_steps),
                new_terminus_index)
            remaining == max_length - length
            curve_length == total_length(new_points)
            short == shorten_curve(new_points, curve_length, remaining)
            new_terminus_1 == new_points[Len(new_points)]
        IN  /\ angle' = filled.angle
            /\ radius' = filled.radius
            /\ fn_calls' = fn_calls + 2 * (3 - Len(point_pool))
            /\ IF exceeds_remaining(curve_length, remaining)
               THEN /\ length' = length + short.curve_length
                    /\ points' = points \o short.points
                    /\ point_pool' = pool
                    /\ pc' = "done"
                    /\ result' = points \o short.points
               ELSE /\ points' = points \o SubSeq(new_points, 1, Len(new_points) - 1)
                    /\ length' = length + curve_length
                    /\ point_pool' = <<new_terminus_1>> \o pool
                    /\ UNCHANGED <<pc, result>>
    /\ UNCHANGED <<objVars, initial_radius, max_length, steps, n_steps,
                   new_terminus_index, pipeVars, funVars>>

(***************************************************************************)
(* The other components at rest.                                           *)
(***************************************************************************)

Identity == [op |-> "identity", args |-> <<>>]

\* No call yet: the lists are empty, tprev holds no argument.
PipeIdle ==
    /\ fns = <<Identity>>
    /\ registered = <<>>
    /\ last = None
    /\ targ = <<>> /\ tin = <<>> /\ tout = <<>> /\ tprev = <<>>
    /\ ret = None

\* fout is <<>> before the call and <<value>> after it.
FunIdle == fin = None /\ fout = <<>>

Init == GenInit /\ PipeIdle /\ FunIdle

Next == GetPoints \/ LinearLoop \/ BunchedLoop \/ CurvyLoop \/ LoopExit

Spec == Init /\ [][Next]_vars

\* The arguments of the running call.
Arguments ==
    [initial_radius |-> initial_radius, max_length |-> max_length,
     steps |-> steps]

\* A generator with deterministic step functions is called again once a
\* call has returned: what that call was given and what it returned is
\* kept, with whether the call that follows it is given other arguments.
CallAgain ==
    /\ pc = "done"
    /\ fout = <<>>
    /\ ~IsRandom(radius_modifier_fn, angle_modifier_fn)
    /\ \E a \in CallArgs, s \in StepsOf(kind) :
          /\ StartCall(a, s)
          /\ fin' = [call |-> Arguments,
                     other |-> <<a[1], a[2], s>> #
                               <<initial_radius, max_length, steps>>]
          /\ fout' = <<result>>

\* One generator with deterministic step functions.
AgainInit ==
    /\ Init
    /\ origin = <<0, 0>>
    /\ ~IsRandom(radius_modifier_fn, angle_modifier_fn)

AgainNext == Next \/ CallAgain

SpecAgain == AgainInit /\ [][AgainNext]_vars

\* A turn of the loop of BunchedScribble or CurvyScribble.
CurveLoop == BunchedLoop \/ CurvyLoop

\* ENABLED <<CurveLoop>>_vars as a state predicate: the call is in such a
\* loop, the loop's condition holds and the call is still followed.
CurveLoopCanTurn ==
    /\ pc = "loop" /\ kind \in {"Bunched", "Curvy"}
    /\ length < max_length
    /\ Len(points) < MaxPoints

\* get_points is sequential code: once called, its loop keeps running until
\* it is left.  That is weak fairness of the loops' turns and exit; for
\* CurveLoop it is spelled out, []<>~ENABLED <<A>>_v \/ []<><<A>>_v, with
\* the ENABLED as the state predicate above.
SpecLive ==
    /\ Init /\ [][Next]_vars
    /\ WF_vars(LinearLoop) /\ WF_vars(LoopExit)
    /\ ([]<>~CurveLoopCanTurn \/ []<><<CurveLoop>>_vars)

(***************************************************************************)
(* Properties of the generators.                                           *)
(***************************************************************************)

\* The sum of the distances between consecutive points of a path.
RECURSIVE PathLength(_)
PathLength(ps) ==
    IF Len(ps) < 2 THEN 0
    ELSE distance(ps[1], ps[2]) + PathLength(Tail(ps))

Returned(k) == kind = k /\ pc = "done"

\* C1: whenever LinearScribble.get_points returns, the sum of the distances
\* between consecutive returned points is at most max_length.
LinearWithinMaxLength ==
    Returned("Linear") => PathLength(result) <= max_length

\* A random linear walk returned after it turned a vertex down.
LinearReturnedShort ==
    /\ Returned("Linear")
    /\ IsRandom(radius_modifier_fn, angle_modifier_fn)
    /\ Len(result) >= 3
    /\ PathLength(result) < max_length

\* C2: whenever BunchedScribble.get_points returns, the length of the
\* returned points, all curve segments concatenated and the last one
\* possibly shortened, is at most max_length.
BunchedWithinMaxLength ==
    Returned("Bunched") => PathLength(result) <= max_length

\* A bunched scribble returned two whole curves and a shortened third.
BunchedReturnedShortened ==
    /\ Returned("Bunched")
    /\ Len(result) > 2 * (n_steps + 1)
    /\ Len(result) < 3 * (n_steps + 1)

\* C3: whenever CurvyScribble.get_points returns, the length of the returned
\* points is at most max_length: a segment that was not the last one is in
\* the output without its cut point, whose distance the tracked length has
\* counted, so the returned path is no longer than the tracked length.
CurvyWithinMaxLength ==
    Returned("Curvy") =>
        /\ PathLength(result) <= max_length
        /\ PathLength(result) <= length
        /\ length <= max_length

\* A curvy scribble returned two cut segments and a shortened third.
CurvyReturnedShortened ==
    /\ Returned("Curvy")
    /\ Len(result) > 2 * new_terminus_index
    /\ Len(result) < 3 * new_terminus_index
    /\ length < max_length

\* C4: get_points with initial_radius <= 0 or max_length <= 0 fails with the
\* invalid-argument error before either step function is called, and returns
\* no points, for each of the three generators.
InvalidArgumentsFailFirst ==
    (pc # "idle" /\ (initial_radius <= 0 \/ max_length <= 0))
        => /\ pc = "error"
           /\ result = ValueError
           /\ fn_calls = 0
           /\ points = <<>> /\ point_pool = <<>>

\* A curvy call failed on its max_length after a call that returned points.
InvalidLengthRejected ==
    /\ kind = "Curvy" /\ pc = "error"
    /\ initial_radius > 0 /\ max_length <= 0

\* The step functions of C8: the radius kept, a fixed increment added.
FixedIncrement ==
    /\ radius_modifier_fn.deltas = {0}
    /\ Cardinality(angle_modifier_fn.deltas) = 1

\* C8: with the radius kept and a fixed increment d added to the angle, the
\* k-th point of LinearScribble.get_points (k counted from 0) is
\* (origin.x + r cos(k d), origin.y + r sin(k d)); for r = 10, d = 15 and
\* origin (0,0), points 0, 6, 12 and 18 are (10,0), (0,10), (-10,0), (0,-10).
WalkVertices ==
    (kind = "Linear" /\ pc \in {"loop", "done"} /\ FixedIncrement)
        => LET d == CHOOSE j \in angle_modifier_fn.deltas : TRUE
           IN  /\ \A k \in 0..(Len(points) - 1) :
                    points[k + 1] =
                        <<origin[1] + Mul(initial_radius, cos(k * d)),
                          origin[2] + Mul(initial_radius, sin(k * d))>>
               /\ (d = 15 /\ initial_radius = 10 * Unit /\ origin = <<0, 0>>
                   /\ Len(points) >= 19)
                    => /\ points[1] = <<10 * Unit, 0>>
                       /\ points[7] = <<0, 10 * Unit>>
                       /\ points[13] = <<-10 * Unit, 0>>
                       /\ points[19] = <<0, -10 * Unit>>

\* The circle of the tests was walked past its 18th point.
CircleWalked ==
    /\ Returned("Linear") /\ FixedIncrement
    /\ angle_modifier_fn.deltas = {15}
    /\ initial_radius = 10 * Unit /\ origin = <<0, 0>>
    /\ Len(result) >= 19

(***************************************************************************)
(* The curve helpers on their own: a call of bezier_curve_points and a     *)
(* call of _shorten_curve on inputs drawn from bounded sets.               *)
(***************************************************************************)

GenRest ==
    /\ kind = "Linear" /\ origin = <<0, 0>>
    /\ radius_modifier_fn = [deltas |-> {0}, abs |-> FALSE]
    /\ angle_modifier_fn = [deltas |-> {15}]
    /\ pc = "idle"
    /\ initial_radius = 0 /\ max_length = 0 /\ steps = 0
    /\ angle = 0 /\ radius = 0 /\ length = 0
    /\ point_pool = <<>> /\ points = <<>>
    /\ n_steps = 0 /\ new_terminus_index = 0
    /\ fn_calls = 0
    /\ result = None

\* The most steps a curve is asked for.
MaxBezierSteps == 12

\* The tests' termini and control point, and a point of the third quadrant.
BezierPoints ==
    { <<10 * Unit, 5 * Unit>>, <<7 * Unit, 20 * Unit>>, <<2 * Unit, 14 * Unit>>,
      <<-3 * Unit, -8 * Unit>> }

BezierInit ==
    /\ GenRest /\ PipeIdle
    /\ fin \in [terminus_1 : BezierPoints, control : BezierPoints,
                terminus_2 : BezierPoints, n_steps : 1..MaxBezierSteps]
    /\ fout = <<>>

BezierCall ==
    /\ fout = <<>>
    /\ fout' = <<bezier_curve_points(fin.terminus_1, fin.control,
                                     fin.terminus_2, fin.n_steps)>>
    /\ UNCHANGED <<fin, genVars, pipeVars>>

BezierNext == BezierCall

SpecBezier == BezierInit /\ [][BezierNext]_vars

\* C9: bezier_curve_points(T1, C, T2, n) returns n + 1 points, the first T1,
\* the last T2, the i-th the value of the quadratic Bezier polynomial at
\* t = i/n (to the nearest grid value).
BezierCurveShape ==
    fout # <<>> =>
        LET n == fin.n_steps
            curve == fout[1]
            t1 == fin.terminus_1
            c == fin.control
            t2 == fin.terminus_2
        IN  /\ Len(curve) = n + 1
            /\ curve[1] = t1
            /\ curve[Len(curve)] = t2
            /\ \A i \in 0..n : \A axis \in 1..2 :
                  (i + 1) \in DOMAIN curve
                  /\ 2 * Abs(n * n * curve[i + 1][axis]
                             - (t1[axis] * (n - i) * (n - i)
                                + 2 * c[axis] * (n - i) * i
                                + t2[axis] * i * i)) <= n * n

\* The tests' curve was computed with 10 steps.
BezierTestCurve ==
    /\ fout # <<>>
    /\ fin = [terminus_1 |-> <<10 * Unit, 5 * Unit>>,
              control |-> <<7 * Unit, 20 * Unit>>,
              terminus_2 |-> <<2 * Unit, 14 * Unit>>, n_steps |-> 10]
    /\ Len(fout[1]) = 11

\* The most points of a curve handed to _shorten_curve.
MaxCurveLen == 4

\* The first points of the tests' curve.
CurvePoints ==
    { <<0, 0>>, <<3 * Unit, 5 * Unit>>, <<20 * Unit, 9 * Unit>>,
      <<-10 * Unit, 9 * Unit>> }

\* The budgets: 5.83 is the length of the tests' first segment and 23.29
\* that of its first two.  get_points calls with a remaining budget > 0.
Budgets == {0, 5 * Unit, 583, 20 * Unit, 2329, 50 * Unit, 90 * Unit}

ShortenInit ==
    /\ GenRest /\ PipeIdle
    /\ fin \in [points : UNION {[1..n -> CurvePoints] : n \in 1..MaxCurveLen},
                max_length : Budgets]
    /\ fout = <<>>

\* The call of the tests: curve_length is total_length(points).  With what
\* is returned the outcome holds the list that was passed, as the call
\* leaves it, and whether the list returned is that list.
ShortenCall ==
    /\ fout = <<>>
    /\ LET curve_length == total_length(fin.points)
           r == shorten_curve(fin.points, curve_length, fin.max_length)
       IN  fout' = <<[points |-> r.points,
                      curve_length |-> r.curve_length,
                      passed |-> points_after_shorten(fin.points, curve_length,
                                                      fin.max_length),
                      returned_is_passed |->
                          shorten_returns_passed(fin.points, curve_length,
                                                 fin.max_length)]>>
    /\ UNCHANGED <<fin, genVars, pipeVars>>

ShortenNext == ShortenCall

SpecShorten == ShortenInit /\ [][ShortenNext]_vars

\* C10: _shorten_curve(points, total_length(points), max_length) returns the
\* longest prefix of points whose length is at most max_length, and with it
\* the length of that prefix.
ShortenLongestPrefix ==
    fout # <<>> =>
        LET p == fin.points
            r == fout[1].points
        IN  /\ Len(r) >= 1 /\ Len(r) <= Len(p)
            /\ r = SubSeq(p, 1, Len(r))
            /\ PathLength(r) <= fin.max_length
            /\ Len(r) < Len(p)
                 => PathLength(SubSeq(p, 1, Len(r) + 1)) > fin.max_length
            /\ fout[1].curve_length = PathLength(r)

\* Two points were discarded and the rest fits the budget exactly.
ShortenedToFit ==
    /\ fout # <<>>
    /\ Len(fin.points) = 4
    /\ Len(fout[1].points) = 2
    /\ fout[1].curve_length = fin.max_length
    /\ fout[1].curve_length > 0

(***************************************************************************)
(* scribbles/points.py: PointTransformer.  A mapping is a record naming    *)
(* the builder operation and its arguments; a composed function is the     *)
(* sequence of mappings it applies, first to last.                         *)
(***************************************************************************)

\* A rotation the other way round (counter-clockwise for positive degrees).
rotate_fn_counter(degrees, pt) ==
    <<Mul(pt[1], cos(degrees)) - Mul(pt[2], sin(degrees)),
      Mul(pt[2], cos(degrees)) + Mul(pt[1], sin(degrees))>>

\* rotate: lambda pt: (pt[0] * cos(theta) + pt[1] * sin(theta),
\*                      pt[1] * cos(theta) - pt[0] * sin(theta))
rotate_fn(degrees, pt) ==
    <<Mul(pt[1], cos(degrees)) + Mul(pt[2], sin(degrees)),
      Mul(pt[2], cos(degrees)) - Mul(pt[1], sin(degrees))>>

\* A limit that takes the bounds the wrong way round: max with the upper
\* bound, then min with the lower one.
limit_fn_swapped(x_max, x_min, y_max, y_min, pt) ==
    <<Min(Max(pt[1], x_max), x_min), Min(Max(pt[2], y_max), y_min)>>

\* limit: lambda pt: (min(max(pt[0], x_min), x_max),
\*                     min(max(pt[1], y_min), y_max))
limit_fn(x_max, x_min, y_max, y_min, pt) ==
    <<Min(Max(pt[1], x_min), x_max), Min(Max(pt[2], y_min), y_max)>>

\* The lambda each builder operation registers, applied to pt.
apply_fn(fn, pt) ==
    CASE fn.op = "identity" -> pt
      [] fn.op = "rotate" -> rotate_fn(fn.args[1], pt)
      [] fn.op = "translate" -> <<pt[1] + fn.args[1], pt[2] + fn.args[2]>>
      [] fn.op = "scale" -> <<Mul(pt[1], fn.args[1]), Mul(pt[2], fn.args[2])>>
      [] fn.op = "mirror_horizontal" -> <<-pt[1], pt[2]>>
      [] fn.op = "mirror_vertical" -> <<pt[1], -pt[2]>>
      [] fn.op = "limit" ->
            limit_fn(fn.args[1], fn.args[2], fn.args[3], fn.args[4], pt)

\* lambda pt: fn1(fn2(pt)): the composition the wrong way round.
composition_reversed(fn1, fn2) == fn2 \o fn1

\* composition = lambda fn1, fn2: lambda pt: fn2(fn1(pt))
composition(fn1, fn2) == fn1 \o fn2

\* reduce(composition, self._fns), from the second element on.
RECURSIVE reduce_composition(_, _)
reduce_composition(acc, rest) ==
    IF rest = <<>> THEN acc
    ELSE reduce_composition(composition(acc, <<Head(rest)>>), Tail(rest))

\* A call of a composed function.
RECURSIVE call_composed(_, _)
call_composed(fn, pt) ==
    IF fn = <<>> THEN pt
    ELSE call_composed(Tail(fn), apply_fn(Head(fn), pt))

\* The list transform returns.
transform_list(f, pts) ==
    LET composed == reduce_composition(<<Head(f)>>, Tail(f))
    IN  [i \in 1..Len(pts) |-> call_composed(composed, pts[i])]

\* A reduce that uses the list up, down to its first element.
fns_after_reduce_consumed(f) == <<Head(f)>>

\* reduce iterates over self._fns and leaves the list as it is.
fns_after_reduce(f) == f

\* A transform that writes its results into the caller's list.
points_after_transform_in_place(pts, out) == out

\* The list comprehension builds a new list; the caller's list stays.
points_after_transform(pts, out) == pts

\* A builder that leaves self._fns alone.
apply_append_not(f, fn) == f

\* _apply: self._fns.append(fn)
apply_append(f, fn) == Append(f, fn)

\* The most mappings a pipeline is given.
MaxFns == 3

\* The arguments of the tests: rotate(-45) and a quarter turn, translate(5,
\* -10), scale(3.5, 0.5), limit(8, -15, 15, -10).
RotateArgs == {<<-45>>, <<90>>}
TranslateArgs == {<<5 * Unit, -10 * Unit>>}
ScaleArgs == {<<(7 * Unit) \div 2, Unit \div 2>>}
LimitArgs == {<<8 * Unit, -15 * Unit, 15 * Unit, -10 * Unit>>}

\* The tests' point lists: the five points of test_points.py's `points`
\* fixture, the first three points of the transformer tests' list, and the
\* rotate test's two points (0, 1) and (-sqrt(2)/2, sqrt(2)/2).
PointLists ==
    { << <<0, 0>>, <<3 * Unit, 5 * Unit>>, <<10 * Unit, -12 * Unit>>,
         <<-50 * Unit, -15 * Unit>>, <<-40 * Unit, 16 * Unit>> >>,
      << <<4 * Unit, 9 * Unit>>, <<42 * Unit, 1968 * Unit>>,
         <<-17 * Unit, -21 * Unit>> >>,
      << <<0, Unit>>, <<-cos(45), cos(45)>> >> }

\* A builder operation: _apply appends the lambda and returns self.
apply(name, args) ==
    /\ Len(fns) <= MaxFns
    /\ fns' = apply_append(fns, [op |-> name, args |-> args])
    /\ registered' = Append(registered, [op |-> name, args |-> args])
    /\ last' = name
    /\ ret' = "self"
    /\ targ' = <<>> /\ tin' = <<>> /\ tout' = <<>> /\ tprev' = <<>>
    /\ UNCHANGED <<genVars, funVars>>

rotate == \E a \in RotateArgs : apply("rotate", a)

translate == \E a \in TranslateArgs : apply("translate", a)

scale == \E a \in ScaleArgs : apply("scale", a)

mirror_horizontal == apply("mirror_horizontal", <<>>)

mirror_vertical == apply("mirror_vertical", <<>>)

limit == \E a \in LimitArgs : apply("limit", a)

BuilderOps ==
    {"rotate", "translate", "scale", "mirror_horizontal", "mirror_vertical",
     "limit"}

transform ==
    \E pts \in PointLists :
        LET out == transform_list(fns, pts)
        IN  /\ tout' = out
            /\ targ' = pts
            /\ tin' = points_after_transform(pts, out)
            /\ fns' = fns_after_reduce(fns)
            /\ tprev' = IF last = "transform" THEN <<targ>> ELSE <<>>
            /\ last' = "transform"
            /\ ret' = "list"
            /\ UNCHANGED <<registered, genVars, funVars>>

PipeInit == GenRest /\ PipeIdle /\ FunIdle

PipeNext ==
    \/ rotate \/ translate \/ scale
    \/ mirror_horizontal \/ mirror_vertical \/ limit
    \/ transform

SpecPipe == PipeInit /\ [][PipeNext]_vars

(***************************************************************************)
(* Properties of PointTransformer.                                         *)
(***************************************************************************)

\* The mappings applied to a point one after the other, first to last.
RECURSIVE ApplyInOrder(_, _)
ApplyInOrder(ops, pt) ==
    IF ops = <<>> THEN pt
    ELSE ApplyInOrder(Tail(ops), apply_fn(Head(ops), pt))

Registered(names) ==
    /\ Len(registered) = Len(names)
    /\ \A i \in 1..Len(names) : registered[i].op = names[i]

\* C5: transform applies the mappings in registration order to every input
\* point: translate(dx,dy).scale(sx,sy) maps (x,y) to ((x+dx)*sx, (y+dy)*sy)
\* and scale(sx,sy).translate(dx,dy) maps it to (x*sx+dx, y*sy+dy).
TransformInRegistrationOrder ==
    last = "transform" =>
        /\ Len(tout) = Len(targ)
        /\ Registered(<<"translate", "scale">>) =>
             LET d == registered[1].args
                 k == registered[2].args
             IN  \A i \in 1..Len(targ) :
                    tout[i] = <<Mul(targ[i][1] + d[1], k[1]),
                                Mul(targ[i][2] + d[2], k[2])>>
        /\ Registered(<<"scale", "translate">>) =>
             LET k == registered[1].args
                 d == registered[2].args
             IN  \A i \in 1..Len(targ) :
                    tout[i] = <<Mul(targ[i][1], k[1]) + d[1],
                                Mul(targ[i][2], k[2]) + d[2]>>

\* translate(5,-10).scale(3.5,0.5) was applied to the tests' first list: its
\* second point (3,5) went to (28,-2.5), not to scale-then-translate's
\* (15.5,-7.5).
TranslateThenScaleApplied ==
    /\ last = "transform"
    /\ Registered(<<"translate", "scale">>)
    /\ targ[2] = <<3 * Unit, 5 * Unit>>
    /\ tout[2] = <<28 * Unit, (-5 * Unit) \div 2>>

\* C6: transform changes neither its input list nor the function list, so
\* after any number of transform calls the pipeline gives each list what a
\* freshly built pipeline with the same mappings gives.
TransformLeavesPipelineAndInput ==
    last = "transform" =>
        /\ tin = targ
        /\ fns = <<Identity>> \o registered
        /\ tout = [i \in 1..Len(targ) |-> ApplyInOrder(registered, targ[i])]

\* One pipeline of two mappings transformed two different lists in a row.
PipelineReused ==
    /\ last = "transform"
    /\ Len(registered) >= 2
    /\ tprev # <<>>
    /\ tprev # <<targ>>

BuilderStep == last' \in BuilderOps /\ registered' # registered

\* The statement of C7 as made: a further builder operation on a pipeline
\* leaves what its transform returns as it was.
BuiltPipelineImmutable ==
    [][BuilderStep =>
         \A pts \in PointLists :
            transform_list(fns', pts) = transform_list(fns, pts)]_vars

\* C7: a builder operation on pipeline p appends the mapping to p's own
\* function list and returns p itself, so p.transform(points) afterwards is
\* what it was before with the new mapping applied to every point.
BuilderAppendsToSelf ==
    [][BuilderStep =>
         /\ ret' = "self"
         /\ Len(fns') = Len(fns) + 1
         /\ SubSeq(fns', 1, Len(fns)) = fns
         /\ fns'[Len(fns')] = registered'[Len(registered')]
         /\ \A pts \in PointLists : \A i \in 1..Len(pts) :
               transform_list(fns', pts)[i] =
                   apply_fn(fns'[Len(fns')], transform_list(fns, pts)[i])]_vars

\* A pipeline that already held a mapping was given a translation.
BuilderCalledOnBuilt ==
    /\ last = "translate"
    /\ ret = "self"
    /\ Len(fns) >= 3

\* A coordinate inside [lo, hi] stays; one outside goes to the nearer bound.
Clamped(v, lo, hi) == IF v < lo THEN lo ELSE IF v > hi THEN hi ELSE v

\* The mappings registered before the last one.
AllButLast(ops) == SubSeq(ops, 1, Len(ops) - 1)

\* C11: limit(x_max, x_min, y_max, y_min) clamps each coordinate on its own:
\* a coordinate inside its range is unchanged and one outside goes to the
\* nearer bound, so every point leaves inside the rectangle;
\* limit(8, -15, 15, -10) maps (-50, -15) to (-15, -10).
LimitClampsEachCoordinate ==
    (last = "transform" /\ registered # <<>>
        /\ registered[Len(registered)].op = "limit") =>
        LET a == registered[Len(registered)].args
        IN  \A i \in 1..Len(targ) :
               LET before == ApplyInOrder(AllButLast(registered), targ[i])
               IN  /\ tout[i][1] = Clamped(before[1], a[2], a[1])
                   /\ tout[i][2] = Clamped(before[2], a[4], a[3])
                   /\ a[2] <= tout[i][1] /\ tout[i][1] <= a[1]
                   /\ a[4] <= tout[i][2] /\ tout[i][2] <= a[3]
                   /\ (a = <<8 * Unit, -15 * Unit, 15 * Unit, -10 * Unit>>
                         /\ before = <<-50 * Unit, -15 * Unit>>) =>
                        tout[i] = <<-15 * Unit, -10 * Unit>>

\* limit(8, -15, 15, -10) alone was applied to the tests' five points: (3, 5)
\* stayed, (10, -12) went to (8, -10) and (-50, -15) to (-15, -10).
LimitAppliedToTestPoints ==
    /\ last = "transform"
    /\ Registered(<<"limit">>)
    /\ Len(targ) = 5
    /\ targ[4] = <<-50 * Unit, -15 * Unit>>
    /\ tout[2] = targ[2]
    /\ tout[3] = <<8 * Unit, -10 * Unit>>
    /\ tout[4] = <<-15 * Unit, -10 * Unit>>

\* C12: rotate(degrees) maps (x, y) to (x cos t + y sin t, y cos t - x sin t)
\* with t the angle in radians, a clockwise turn for positive degrees:
\* rotate(90) sends (x, y) to (y, -x) and rotate(-45) sends (0, 1) to
\* (-sqrt(2)/2, sqrt(2)/2).
RotateClockwise ==
    (last = "transform" /\ Registered(<<"rotate">>)) =>
        LET degrees == registered[1].args[1]
        IN  \A i \in 1..Len(targ) :
               LET x == targ[i][1]
                   y == targ[i][2]
               IN  /\ tout[i] =
                        <<Mul(x, cos(degrees)) + Mul(y, sin(degrees)),
                          Mul(y, cos(degrees)) - Mul(x, sin(degrees))>>
                   /\ degrees = 90 => tout[i] = <<y, -x>>
                   /\ (degrees = -45 /\ targ[i] = <<0, Unit>>) =>
                        tout[i] = <<-cos(45), cos(45)>>

\* rotate(-45) alone was applied to the rotate test's points: (0, 1) went to
\* (-sqrt(2)/2, sqrt(2)/2).
RotateAppliedToTestPoints ==
    /\ last = "transform"
    /\ Registered(<<"rotate">>)
    /\ registered[1].args = <<-45>>
    /\ targ[1] = <<0, Unit>>
    /\ tout[1] = <<-cos(45), cos(45)>>

(***************************************************************************)
(* scribbles/points.py: total_length and max_distance, called on a list of *)
(* points.  The outcome of a call is a record: what it raised, if anything, *)
(* and the value it returned, if any.                                      *)
(***************************************************************************)

\* The longest list the two functions are given.
MaxListLen == 3

\* Points of the tests of total_length and max_distance.
MeasurePoints ==
    { <<0, 0>>, <<3 * Unit, 5 * Unit>>, <<20 * Unit, 9 * Unit>>,
      <<5 * Unit, 5 * Unit>>, <<-5 * Unit, -501>> }

MeasureInit ==
    /\ GenRest /\ PipeIdle
    /\ fin \in [points : UNION {[1..n -> MeasurePoints] : n \in 0..MaxListLen},
                origin : {<<0, 0>>, <<3 * Unit, 5 * Unit>>}]
    /\ fout = <<>>

TotalLengthCall ==
    /\ fout = <<>>
    /\ fout' = IF total_length_raises(fin.points)
               THEN <<[fn |-> "total_length", raised |-> IndexError,
                       returned |-> <<>>]>>
               ELSE <<[fn |-> "total_length", raised |-> None,
                       returned |-> <<total_length(fin.points)>>]>>
    /\ UNCHANGED <<fin, genVars, pipeVars>>

MaxDistanceCall ==
    /\ fout = <<>>
    /\ fout' = <<[fn |-> "max_distance", raised |-> None,
                  returned |-> <<max_distance(fin.points, fin.origin)>>]>>
    /\ UNCHANGED <<fin, genVars, pipeVars>>

MeasureNext == TotalLengthCall \/ MaxDistanceCall

SpecMeasure == MeasureInit /\ [][MeasureNext]_vars

Called(f) == fout # <<>> /\ fout[1].fn = f

\* C13: total_length returns the sum of the distances between consecutive
\* points of the sequence, which is 0 for a sequence of length 0 and for one
\* of length 1.
TotalLengthSumsOrZero ==
    Called("total_length") =>
        /\ fout[1].raised = None
        /\ fout[1].returned = <<PathLength(fin.points)>>
        /\ Len(fin.points) <= 1 => fout[1].returned = <<0>>

\* C14: max_distance returns the largest distance from origin to any of the
\* points, and 0 for an empty sequence.
MaxDistanceIsLargest ==
    Called("max_distance") =>
        /\ fout[1].raised = None
        /\ Len(fout[1].returned) = 1
        /\ \A i \in 1..Len(fin.points) :
              distance(fin.origin, fin.points[i]) <= fout[1].returned[1]
        /\ fin.points # <<>> =>
              \E i \in 1..Len(fin.points) :
                 distance(fin.origin, fin.points[i]) = fout[1].returned[1]
        /\ fin.points = <<>> => fout[1].returned = <<0>>

\* max_distance was given three points, the farthest in the middle: it
\* returned the distance of (-5, -5.01) from (0, 0), 7.07, not that of the
\* last point.
MaxDistanceOfTestPoints ==
    /\ Called("max_distance")
    /\ fin.origin = <<0, 0>>
    /\ fin.points = << <<5 * Unit, 5 * Unit>>, <<-5 * Unit, -501>>,
                       <<3 * Unit, 5 * Unit>> >>
    /\ fout[1].returned = <<distance(<<0, 0>>, <<-5 * Unit, -501>>)>>
    /\ fout[1].returned[1] > distance(<<0, 0>>, <<3 * Unit, 5 * Unit>>)

(***************************************************************************)
(* Termination of get_points.                                              *)
(***************************************************************************)

\* The vertex the walk produces next: it depends on the angle and radius
\* reached, not on what the step functions draw next.
NextVertex ==
    get_new_point(origin, radius_modifier_fn, angle_modifier_fn, angle, radius,
                  CHOOSE k \in radius_modifier_fn.deltas : TRUE,
                  CHOOSE j \in angle_modifier_fn.deltas : TRUE).new_point

\* The vertices the walk has produced that the loop still holds, last last.
HeldVertices == IF kind = "Linear" THEN points ELSE point_pool

\* The walk is about to make a step of length zero.
WalkStalled ==
    /\ pc = "loop"
    /\ HeldVertices # <<>>
    /\ NextVertex = HeldVertices[Len(HeldVertices)]

\* A turn of the loop that leaves the loop where it was: with deterministic
\* step functions the same turn follows, for ever.
TurnRepeats ==
    /\ pc = "loop" /\ pc' = "loop"
    /\ ~IsRandom(radius_modifier_fn, angle_modifier_fn)
    /\ <<angle', radius', length', point_pool'>> =
          <<angle, radius, length, point_pool>>

\* The statement of C15 as made, in the form a finite run refutes: once the
\* walk has made a step of positive length (length > 0) the call is on its
\* way to returning, so no turn of its loop leaves the loop where it was.
ReturnsAfterOnePositiveStep == [][length > 0 => ~TurnRepeats]_vars

\* A turn of the loop that does not return adds to length, unless it is the
\* first one (the first vertex adds no length) or the walk has stalled.
TurnProgresses ==
    (pc = "loop" /\ pc' = "loop") =>
        length' > length \/ points = <<>> \/ WalkStalled

\* C15: a get_points called with valid arguments returns, given step
\* functions none of whose steps has length zero (on the grid a step of
\* positive length is at least one grid unit long): every turn of the loop
\* then adds to length, which the loop keeps below max_length, and from
\* every state of the loop the call returns unless the walk comes to a step
\* of length zero.
ReturnsUnlessStalled ==
    /\ [][TurnProgresses]_vars
    /\ [](pc = "loop" => <>(pc = "done" \/ WalkStalled))

\* A LinearScribble returned after more than twenty steps of its walk, none
\* of length zero.
ReturnedAfterManySteps ==
    /\ Returned("Linear")
    /\ Len(result) > 20
    /\ \A i \in 1..(Len(result) - 1) : result[i] # result[i + 1]

(***************************************************************************)
(* Calls of one generator, one after the other.                            *)
(***************************************************************************)

\* The running call was given what the kept call was given.
SameAsKept == fout # <<>> /\ fin.call = Arguments

\* C16: with deterministic step functions two get_points calls of one
\* generator with the same arguments return the same sequence, whatever
\* calls were made in between: every call starts from angle 0, radius
\* initial_radius, no length and no points.
SameArgumentsSameResult ==
    /\ (pc = "done" /\ SameAsKept) => result = fout[1]
    /\ (pc = "loop" /\ fn_calls = 0) =>
          /\ angle = 0 /\ radius = initial_radius
          /\ length = 0 /\ points = <<>> /\ point_pool = <<>>

\* A call returned the points of an earlier call with the same arguments,
\* after a call with other arguments in between.
ReturnedSameAfterOtherCall ==
    /\ pc = "done" /\ SameAsKept
    /\ fin.other
    /\ Len(result) > 2
    /\ result = fout[1]

\* C17: steps below 10 are raised to 10: every curve of BunchedScribble and
\* CurvyScribble is computed with max(steps, 10) subdivisions, so a call with
\* steps < 10 returns the sequence the call with steps = 10 returns for the
\* same walk.
StepsClampedToTen ==
    (kind # "Linear" /\ pc \in {"loop", "done"}) =>
        /\ n_steps = IF steps < 10 THEN 10 ELSE steps
        /\ (kind = "Bunched" /\ pc = "loop") =>
              Len(points) % (n_steps + 1) = 0
        /\ (pc = "done" /\ fout # <<>>
              /\ fin.call.initial_radius = initial_radius
              /\ fin.call.max_length = max_length
              /\ fin.call.steps <= 10 /\ steps <= 10) =>
              result = fout[1]

\* A call with steps = 5 returned the curves of the earlier call with
\* steps = 10: more than one of them, of 11 points each.
FiveStepsReturnedAsTen ==
    /\ pc = "done" /\ kind = "Bunched" /\ fout # <<>>
    /\ fin.call = [initial_radius |-> initial_radius,
                   max_length |-> max_length, steps |-> 10]
    /\ steps = 5
    /\ Len(result) > 22
    /\ result = fout[1]

(***************************************************************************)
(* The walk of a generator with deterministic step functions, computed     *)
(* from its start.                                                         *)
(***************************************************************************)

Deterministic == ~IsRandom(radius_modifier_fn, angle_modifier_fn)

\* The next n vertices of the walk that stands at angle a and radius r.
RECURSIVE WalkFrom(_, _, _)
WalkFrom(a, r, n) ==
    IF n = 0 THEN <<>>
    ELSE LET p == get_new_point(origin, radius_modifier_fn, angle_modifier_fn,
                                a, r,
                                CHOOSE k \in radius_modifier_fn.deltas : TRUE,
                                CHOOSE j \in angle_modifier_fn.deltas : TRUE)
         IN  <<p.new_point>> \o WalkFrom(p.new_angle, p.new_radius, n - 1)

\* The first n vertices of the running call's walk.
Walk(n) == WalkFrom(0, initial_radius, n)

\* C18: LinearScribble returns a prefix of its walk's vertices, none left
\* out: the first vertex is always taken, each later one is appended iff the
\* length up to it is at most max_length, and the walk stops at the first
\* vertex that would exceed max_length (one vertex drawn and dropped) or as
\* soon as the length equals max_length (no further vertex drawn).
LinearPrefixOfWalk ==
    /\ (kind = "Linear" /\ pc = "loop") =>
          /\ fn_calls = 2 * Len(points)
          /\ length = PathLength(points)
          /\ Deterministic => points = Walk(Len(points))
    /\ Returned("Linear") =>
          LET n == Len(result)
          IN  /\ n >= 1
              /\ PathLength(result) <= max_length
              /\ fn_calls \in {2 * n, 2 * (n + 1)}
              /\ fn_calls = 2 * n <=> PathLength(result) = max_length
              /\ Deterministic =>
                    /\ result = Walk(n)
                    /\ PathLength(result) < max_length =>
                          PathLength(Walk(n + 1)) > max_length

\* A LinearScribble dropped the fourth vertex of its walk, the first to take
\* the length past max_length, and returned the three before it.
LinearStoppedAtFirstExcess ==
    /\ Returned("Linear") /\ Deterministic
    /\ Len(result) = 3
    /\ result = Walk(3)
    /\ fn_calls = 8
    /\ PathLength(Walk(4)) > max_length

\* The k-th curve of BunchedScribble (k = 0, 1, ...) over the vertices W.
BunchedCurve(W, k) ==
    bezier_curve_points(W[2 * k + 1], W[2 * k + 2], W[2 * k + 3], n_steps)

\* The turns of its loop a BunchedScribble call has made: the first draws
\* three vertices and every later one two, with two step-function calls to
\* the vertex.
BunchedTurns == IF fn_calls = 0 THEN 0 ELSE (fn_calls - 2) \div 4

\* C19: the k-th curve of BunchedScribble is the Bezier curve from walk
\* vertex v(2k) to v(2k+2) with control v(2k+1): the end of a curve stays in
\* the pool as the start of the next, and the pool is refilled to three
\* vertices, never more (one is left between turns, two are drawn).
BunchedChained ==
    /\ (kind = "Bunched" /\ pc = "loop") =>
          LET m == Len(points) \div (n_steps + 1)
          IN  /\ Len(points) = m * (n_steps + 1)
              /\ m = BunchedTurns
              /\ fn_calls = IF m = 0 THEN 0 ELSE 2 * (2 * m + 1)
              /\ Len(point_pool) = IF m = 0 THEN 0 ELSE 1
              /\ m >= 1 => point_pool[1] = points[Len(points)]
              /\ \A k \in 1..(m - 1) :
                    points[k * (n_steps + 1) + 1] = points[k * (n_steps + 1)]
              /\ Deterministic =>
                    /\ m >= 1 => point_pool = <<Walk(2 * m + 1)[2 * m + 1]>>
                    /\ \A k \in 0..(m - 1) :
                          SubSeq(points, k * (n_steps + 1) + 1,
                                 (k + 1) * (n_steps + 1)) =
                              BunchedCurve(Walk(2 * m + 1), k)
    /\ (Returned("Bunched") /\ Deterministic) =>
          LET t == BunchedTurns
              W == Walk(2 * t + 1)
          IN  /\ t >= 1
              /\ Len(point_pool) = 1
              /\ Len(result) <= t * (n_steps + 1)
              /\ \A i \in 1..Len(result) :
                    result[i] = BunchedCurve(W, (i - 1) \div (n_steps + 1))
                                    [((i - 1) % (n_steps + 1)) + 1]

\* A BunchedScribble with deterministic step functions has made three full
\* curves: the third starts where the second ends, at the walk's fifth vertex,
\* and the seventh vertex is left in the pool.
ThreeCurvesChained ==
    /\ kind = "Bunched" /\ pc = "loop" /\ Deterministic
    /\ Len(points) = 3 * (n_steps + 1)
    /\ points[2 * (n_steps + 1) + 1] = Walk(5)[5]
    /\ points[2 * (n_steps + 1)] = Walk(5)[5]
    /\ point_pool = <<Walk(7)[7]>>
    /\ Walk(7)[7] # Walk(5)[5]

(***************************************************************************)
(* The last turn of BunchedScribble's and CurvyScribble's loop.            *)
(***************************************************************************)

\* The segment a turn computes from the pool as refilled with draws ks, js:
\* the whole curve for BunchedScribble, the curve up to its cut point for
\* CurvyScribble.
TurnSegment(filled) ==
    LET curve == bezier_curve_points(filled.pool[1], filled.pool[2],
                                     filled.pool[3], n_steps)
    IN  IF kind = "Curvy" THEN SubSeq(curve, 1, new_terminus_index + 1)
        ELSE curve

\* What a segment adds to the points when it fits: all of it, but for
\* CurvyScribble's cut point, which goes to the pool to start the next.
EmittedInFull(seg) ==
    IF kind = "Curvy" THEN SubSeq(seg, 1, Len(seg) - 1) ELSE seg

CurveTurn ==
    /\ kind \in {"Bunched", "Curvy"}
    /\ pc = "loop"
    /\ fn_calls' > fn_calls

\* C20: in BunchedScribble and CurvyScribble a segment is shortened iff its
\* length is strictly greater than the remaining budget, and with a
\* shortened segment the call returns: no further vertex is drawn and no
\* further point appended.  A segment of length at most the remaining budget
\* is appended in full, never shortened, and the loop goes on.
TerminalStep ==
    /\ [][CurveTurn =>
           \E ks \in Draws(radius_modifier_fn.deltas, point_pool),
              js \in Draws(angle_modifier_fn.deltas, point_pool) :
              LET filled == fill_pool(origin, radius_modifier_fn,
                                      angle_modifier_fn, point_pool, angle,
                                      radius, ks, js)
                  seg == TurnSegment(filled)
                  remaining == max_length - length
              IN  /\ angle' = filled.angle /\ radius' = filled.radius
                  /\ IF PathLength(seg) > remaining
                     THEN /\ pc' = "done"
                          /\ result' = points'
                          /\ \E n \in 1..(Len(seg) - 1) :
                                /\ points' = points \o SubSeq(seg, 1, n)
                                /\ PathLength(SubSeq(seg, 1, n)) <= remaining
                     ELSE /\ pc' = "loop"
                          /\ points' = points \o EmittedInFull(seg)
                          /\ length' = length + PathLength(seg)]_vars
    /\ [][pc = "done" => (fn_calls' = 0 /\ points' = <<>>)]_vars

\* A CurvyScribble returned with a shortened segment after at least two
\* segments appended in full.
StoppedWithShortenedSegment ==
    /\ Returned("Curvy")
    /\ Len(result) > 2 * new_terminus_index
    /\ Len(result) % new_terminus_index # 0
    /\ fn_calls = 2 * (3 + Len(result) \div new_terminus_index)

(***************************************************************************)
(* The joints of CurvyScribble.                                            *)
(***************************************************************************)

\* The turns of its loop a CurvyScribble call has made: the first draws
\* three vertices and every later one a single one.
CurvyTurns == IF fn_calls = 0 THEN 0 ELSE fn_calls \div 2 - 2

\* A turn of CurvyScribble's loop after which the loop goes on.
CurvyGoesOn ==
    /\ kind = "Curvy" /\ pc = "loop" /\ pc' = "loop"
    /\ fn_calls' > fn_calls

\* C21: with cut = floor((n_steps + 1) * 5 / 6) - 1, every segment of
\* CurvyScribble but the last appends the curve points of index 0..cut-1 to
\* the output; the point of index cut is not appended but put at the front
\* of the pool, and the next segment's control triple is that cut point, the
\* previous segment's terminus_2 and one newly drawn walk vertex.
CurvyJointSmoothing ==
    /\ [](kind = "Curvy" /\ pc = "loop" =>
            /\ new_terminus_index = ((n_steps + 1) * 5) \div 6 - 1
            /\ Len(points) = CurvyTurns * new_terminus_index
            /\ Len(point_pool) = IF CurvyTurns = 0 THEN 0 ELSE 2
            /\ (Deterministic /\ CurvyTurns >= 1) =>
                  point_pool[2] = Walk(CurvyTurns + 2)[CurvyTurns + 2])
    /\ [][CurvyGoesOn =>
           \E ks \in Draws(radius_modifier_fn.deltas, point_pool),
              js \in Draws(angle_modifier_fn.deltas, point_pool) :
              LET filled == fill_pool(origin, radius_modifier_fn,
                                      angle_modifier_fn, point_pool, angle,
                                      radius, ks, js)
                  curve == bezier_curve_points(filled.pool[1], filled.pool[2],
                                               filled.pool[3], n_steps)
                  cut == new_terminus_index
              IN  /\ angle' = filled.angle /\ radius' = filled.radius
                  /\ point_pool # <<>> =>
                        /\ fn_calls' = fn_calls + 2
                        /\ filled.pool[1] = point_pool[1]
                        /\ filled.pool[2] = point_pool[2]
                  /\ points' = points \o SubSeq(curve, 1, cut)
                  /\ point_pool' = <<curve[cut + 1], filled.pool[3]>>]_vars

\* A CurvyScribble with deterministic step functions has made two turns: the
\* pool holds the second curve's cut point, which is not in the output, and
\* the walk's fourth vertex.
SecondCutPointPending ==
    /\ kind = "Curvy" /\ pc = "loop" /\ Deterministic
    /\ Len(points) = 2 * new_terminus_index
    /\ point_pool[2] = Walk(4)[4]
    /\ point_pool[1] # Walk(4)[4]
    /\ \A i \in 1..Len(points) : points[i] # point_pool[1]

(***************************************************************************)
(* A walk that never moves.                                                *)
(***************************************************************************)

\* The step functions give back the radius and the angle of the call's start:
\* every vertex of the walk is its first one.
WalkStandsStill ==
    /\ pc = "loop"
    /\ radius = initial_radius /\ angle = 0
    /\ \A k \in radius_modifier_fn.deltas :
          radius_fn(radius_modifier_fn, radius, k) = radius
    /\ \A j \in angle_modifier_fn.deltas :
          angle_fn(angle_modifier_fn, angle, j) = angle

\* C22: with step functions that keep the radius and the angle as they are,
\* a LinearScribble.get_points called with valid arguments never returns:
\* length stays 0, below max_length, neither test of the loop ends it, and
\* every turn appends the same vertex once more.
StandingWalkNeverReturns ==
    /\ [](kind = "Linear" /\ WalkStandsStill =>
            /\ length = 0 /\ length < max_length
            /\ \A i \in 1..Len(points) : points[i] = NextVertex
            /\ ~exceeds(length + distance(NextVertex, NextVertex), max_length))
    /\ [][kind = "Linear" /\ WalkStandsStill =>
            /\ WalkStandsStill'
            /\ length' = 0
            /\ points' = Append(points, NextVertex)]_vars

\* The standing walk of |r - 10| from radius 5 has filled the list with as
\* many copies of its vertex as the model holds, and is still in the loop.
StandingWalkFilledList ==
    /\ kind = "Linear" /\ WalkStandsStill
    /\ radius_modifier_fn.abs /\ radius = 5 * Unit
    /\ Len(points) = MaxPoints
    /\ length = 0

(***************************************************************************)
(* The walk of a generator constructed without step functions: the radius  *)
(* and the angle under the default radius_fn and angle_fn.  The vertices   *)
(* are left out (their angles are not on the cosine table).                *)
(***************************************************************************)

\* lambda r: abs(r + randint(-3, 3))
default_radius_fn == [deltas |-> {k * Unit : k \in -3..3}, abs |-> TRUE]

\* lambda a: a + randint(1, 50)
default_angle_fn == [deltas |-> 1..50]

\* The steps a default walk is followed for.
MaxDefaultSteps == 3

\* The radii a default walk starts from: 1, 2.5 and 10.
DefaultRadii == {Unit, 250, 10 * Unit}

DefaultInit ==
    /\ kind = "Linear" /\ origin = <<0, 0>>
    /\ radius_modifier_fn = default_radius_fn
    /\ angle_modifier_fn = default_angle_fn
    /\ pc = "loop"
    /\ initial_radius \in DefaultRadii
    /\ max_length = 0 /\ steps = 0
    /\ angle = start_angle(0) /\ radius = initial_radius /\ length = 0
    /\ point_pool = <<>> /\ points = <<>>
    /\ n_steps = 0 /\ new_terminus_index = 0
    /\ fn_calls = 0
    /\ result = None
    /\ PipeIdle /\ FunIdle

\* The two step-function calls of _get_new_point.
DefaultStep ==
    /\ fn_calls < 2 * MaxDefaultSteps
    /\ \E k \in radius_modifier_fn.deltas, j \in angle_modifier_fn.deltas :
          /\ radius' = radius_fn(radius_modifier_fn, radius, k)
          /\ angle' = angle_fn(angle_modifier_fn, angle, j)
    /\ fn_calls' = fn_calls + 2
    /\ UNCHANGED <<kind, origin, radius_modifier_fn, angle_modifier_fn, pc,
                   initial_radius, max_length, steps, length, point_pool,
                   points, n_steps, new_terminus_index, result, pipeVars,
                   funVars>>

SpecDefault == DefaultInit /\ [][DefaultStep]_vars

\* C23: under the default step functions, |r + k| with k in -3..3 and a + j
\* with j in 1..50, the radius of the walk is non-negative after every step
\* and every step makes the angle larger (by at least 1 and at most 50),
\* whatever is drawn.
DefaultWalkKeepsRadiusAndTurns ==
    /\ [](radius >= 0)
    /\ [][/\ angle' > angle
          /\ angle' - angle \in 1..50
          /\ radius' >= 0
          /\ \E k \in -3..3 :
                radius' = Abs(radius + k * Unit)]_vars

\* The walk went through zero: from radius 2.5 the draw -3 gave 0.5 (not
\* -0.5), and the angle has grown by the smallest draw.
RadiusReflectedAtZero ==
    /\ radius_modifier_fn = default_radius_fn
    /\ initial_radius = 250 /\ radius = 50
    /\ fn_calls = 2
    /\ angle = 1

(***************************************************************************)
(* scribbles/render.py: the colour functions.  A colour is a sequence of   *)
(* three channels (indices 1..3 for the code's 0..2); a call's random      *)
(* draws are chosen by the action that makes the call.                     *)
(***************************************************************************)

\* The values randint(a, b) may return.
randint(a, b) == a..b

\* get_new_color's new_pt, offset being what randint(-range_, range_) gave.
new_pt(pt, offset) == Abs(pt + offset) % 255

\* A get_color_point without its lower clamp.
get_color_point_no_floor(pt, min_pt, max_pt, offset) ==
    LET nonzero == IF offset = 0 THEN 1 ELSE offset
    IN  Min(max_pt, Abs(pt + nonzero))

\* offset is what randint(-range_, range_) gave.
get_color_point(pt, min_pt, max_pt, offset) ==
    LET nonzero == IF offset = 0 THEN 1 ELSE offset
    IN  Max(min_pt, Min(max_pt, Abs(pt + nonzero)))

\* The loop of get_max_color_point_index from index i on.
RECURSIVE max_color_point_loop(_, _, _, _)
max_color_point_loop(color, i, max_pt, dominant_index) ==
    IF i > Len(color) THEN dominant_index
    ELSE IF color[i] > max_pt
         THEN max_color_point_loop(color, i + 1, color[i], i)
         ELSE max_color_point_loop(color, i + 1, max_pt, dominant_index)

get_max_color_point_index(color) ==
    LET dominant_index == max_color_point_loop(color, 1, -1, 1)
    IN  [dominant_index |-> dominant_index,
         remaining |-> (1..Len(color)) \ {dominant_index}]

\* offsets[i] is the draw of the get_color_point call for channel i.
get_nearby_color(color, min_pt, offsets) ==
    LET m == get_max_color_point_index(color)
        new_dominant == get_color_point(color[m.dominant_index], min_pt, 255,
                                        offsets[m.dominant_index])
        max_other == new_dominant - min_pt
    IN  [index \in 1..Len(color) |->
            IF index = m.dominant_index THEN new_dominant
            ELSE get_color_point(color[index], 0, max_other, offsets[index])]

\* The colours of the tests.
TestColors == { <<100, 120, 200>>, <<255, 100, 40>>, <<120, 100, 240>> }

\* The colours the functions are called with: the tests', black, grey, dark
\* ones, and ones with two channels close to each other or at 255.
Colors ==
    TestColors \cup
    { <<0, 0, 0>>, <<100, 100, 100>>, <<20, 10, 5>>, <<5, 45, 0>>,
      <<200, 190, 10>>, <<100, 255, 0>>, <<50, 60, 250>> }

\* The range_ arguments (the tests' 10 and a smaller one).
ColorRanges == {2, 10}

\* The min_pt arguments (the default 40 and none).
MinPts == {0, 40}

\* The arguments of a call of either function.
ColorArgs ==
    [fn : {"get_new_color"}, color : Colors, range_ : ColorRanges]
    \cup [fn : {"get_nearby_color"}, color : Colors, min_pt : MinPts,
          range_ : ColorRanges]

ColorInit ==
    /\ GenRest /\ PipeIdle
    /\ fin \in ColorArgs
    /\ fout = <<>>

GetNewColorCall ==
    /\ fout = <<>>
    /\ fin.fn = "get_new_color"
    /\ \E red \in randint(-fin.range_, fin.range_) :
          LET new_red == new_pt(fin.color[1], red)
              diff == Abs(fin.color[1] - new_red)
          IN  \E green, blue \in randint(-diff, diff) :
                fout' = <<[fn |-> "get_new_color",
                           color |-> <<new_red, new_pt(fin.color[2], green),
                                       new_pt(fin.color[3], blue)>>]>>
    /\ UNCHANGED <<fin, genVars, pipeVars>>

GetNearbyColorCall ==
    /\ fout = <<>>
    /\ fin.fn = "get_nearby_color"
    /\ \E offsets \in [1..3 -> randint(-fin.range_, fin.range_)] :
          fout' = <<[fn |-> "get_nearby_color",
                     color |-> get_nearby_color(fin.color, fin.min_pt,
                                                offsets)]>>
    /\ UNCHANGED <<fin, genVars, pipeVars>>

ColorNext == GetNewColorCall \/ GetNearbyColorCall

SpecColor == ColorInit /\ [][ColorNext]_vars

\* How far channel i of the returned colour is from the one passed in.
Change(i) == Abs(fout[1].color[i] - fin.color[i])

\* C24: every channel of the colour get_new_color returns differs from the
\* channel passed in by at most range_, and by no more than the red channel
\* does.
NewColorWithinRange ==
    Called("get_new_color") =>
        \A i \in 1..3 : Change(i) <= fin.range_ /\ Change(i) <= Change(1)

\* The channel get_max_color_point_index calls dominant: the first of the
\* largest ones.
DominantOf(color) ==
    CHOOSE i \in 1..3 :
        /\ \A j \in 1..3 : color[j] <= color[i]
        /\ \A j \in 1..(i - 1) : color[j] < color[i]

\* The statement of C25 as made: the dominant channel's new value is at
\* least min_pt and within range_ of the old one; every other channel's new
\* value is in [0, new_dominant - min_pt], within range_ of its old value and
\* below the new dominant value.
NearbyColorKeepsRange ==
    Called("get_nearby_color") =>
        LET d == DominantOf(fin.color)
            new == fout[1].color
        IN  /\ new[d] >= fin.min_pt
            /\ Change(d) <= fin.range_
            /\ \A i \in (1..3) \ {d} :
                  /\ new[i] \in 0..(new[d] - fin.min_pt)
                  /\ Change(i) <= fin.range_
                  /\ new[i] < new[d]

\* C25: get_nearby_color gives the channel that was dominant a value of at
\* least min_pt, within range_ of the old one unless that was more than
\* range_ below min_pt (the value is then min_pt); every other channel gets
\* a value in [0, new_dominant - min_pt], within range_ of its old value
\* unless that was more than range_ above new_dominant - min_pt (the value is
\* then new_dominant - min_pt), and below the new dominant value when
\* min_pt > 0.
NearbyColorKeepsRangeUnlessClamped ==
    Called("get_nearby_color") =>
        LET d == DominantOf(fin.color)
            new == fout[1].color
            max_other == new[d] - fin.min_pt
        IN  /\ new[d] >= fin.min_pt
            /\ \/ Change(d) <= fin.range_
               \/ new[d] = fin.min_pt /\ fin.color[d] < fin.min_pt - fin.range_
            /\ fin.color[d] >= fin.min_pt - fin.range_ =>
                  Change(d) <= fin.range_
            /\ \A i \in (1..3) \ {d} :
                  /\ new[i] \in 0..max_other
                  /\ \/ Change(i) <= fin.range_
                     \/ new[i] = max_other /\ fin.color[i] > max_other + fin.range_
                  /\ fin.color[i] <= max_other + fin.range_ =>
                        Change(i) <= fin.range_
                  /\ fin.min_pt > 0 => new[i] < new[d]

\* (200, 190, 10) with min_pt 40 and range_ 10: red went up to 210 and
\* green, 190, was cut to 210 - 40 = 170, twenty below its old value.
NearbyColorCutToCap ==
    /\ Called("get_nearby_color")
    /\ fin.color = <<200, 190, 10>> /\ fin.min_pt = 40 /\ fin.range_ = 10
    /\ fout[1].color[1] = 210
    /\ fout[1].color[2] = 170

(***************************************************************************)
(* The length the curve generators keep.                                   *)
(***************************************************************************)

\* C26: at the start of every turn of BunchedScribble's loop and at return,
\* length equals total_length of the points accumulated so far, and
\* 0 <= length <= max_length.
BunchedLengthIsTotalLength ==
    (kind = "Bunched" /\ pc \in {"loop", "done"}) =>
        /\ ~total_length_raises(points)
        /\ length = total_length(points)
        /\ 0 <= length /\ length <= max_length

\* C27: at the start of every turn of CurvyScribble's loop after the first,
\* length equals total_length of the emitted points followed by the cut
\* point at the front of the pool, so that
\* total_length(points) <= length <= max_length.
CurvyLengthCountsCutPoint ==
    (kind = "Curvy" /\ pc = "loop" /\ CurvyTurns >= 1) =>
        /\ points # <<>> /\ point_pool # <<>>
        /\ length = PathLength(points \o <<point_pool[1]>>)
        /\ length = total_length(points \o <<point_pool[1]>>)
        /\ total_length(points) <= length
        /\ length <= max_length

\* Three turns made: the cut point's distance is counted, so length is more
\* than the length of the points emitted.
CutPointCountedNotEmitted ==
    /\ kind = "Curvy" /\ pc = "loop" /\ CurvyTurns = 3
    /\ total_length(points) < length

(***************************************************************************)
(* The cut index of CurvyScribble, for a range of steps arguments: the     *)
(* start of get_points (steps clamped, index computed) and the cut of one  *)
(* curve, that of the tests' termini and control point.                    *)
(***************************************************************************)

\* The steps arguments run from -MaxStepsArg to MaxStepsArg.
MaxStepsArg == 40

CutInit ==
    /\ GenRest /\ PipeIdle
    /\ fin \in [steps : (-MaxStepsArg)..MaxStepsArg,
                terminus_1 : {<<10 * Unit, 5 * Unit>>},
                control : {<<7 * Unit, 20 * Unit>>},
                terminus_2 : {<<2 * Unit, 14 * Unit>>}]
    /\ fout = <<>>

CutCall ==
    /\ fout = <<>>
    /\ LET n == min_steps(fin.steps)
           index == terminus_index(n)
           new_points == bezier_curve_points(fin.terminus_1, fin.control,
                                             fin.terminus_2, n)
       IN  fout' = <<[n_steps |-> n,
                      new_terminus_index |-> index,
                      new_points |-> cut_curve(new_points, index)]>>
    /\ UNCHANGED <<fin, genVars, pipeVars>>

CutNext == CutCall

SpecCut == CutInit /\ [][CutNext]_vars

\* C28: for every integer steps argument, the clamped n_steps and
\* new_terminus_index = int((n_steps + 1) * 5 / 6) - 1 satisfy
\* 8 <= new_terminus_index <= n_steps - 1: the cut point is a point of the
\* curve strictly between its ends, the cut segment does not hold
\* terminus_2, and without its cut point it still has at least 8 points.
CutIndexInsideCurve ==
    fout # <<>> =>
        LET n == fout[1].n_steps
            index == fout[1].new_terminus_index
            segment == fout[1].new_points
        IN  /\ n = Max(fin.steps, 10)
            /\ index = ((n + 1) * 5) \div 6 - 1
            /\ 8 <= index /\ index <= n - 1
            /\ 0 < index /\ index < n
            /\ Len(segment) = index + 1
            /\ segment[index + 1] \notin {fin.terminus_1, fin.terminus_2}
            /\ \A i \in 1..Len(segment) : segment[i] # fin.terminus_2
            /\ Len(segment) - 1 >= 8

\* The default steps: the cut falls on point 8 of the curve's 11 points.
CutAtEightOfTen ==
    /\ fout # <<>>
    /\ fin.steps = 10
    /\ fout[1].new_terminus_index = 8
    /\ Len(fout[1].new_points) = 9

(***************************************************************************)
(* What a call returns is never empty.                                     *)
(***************************************************************************)

\* The point the next segment of a curve generator starts from: the point
\* the pool begins with or, on the first turn, the walk's first vertex.
SegmentStart == IF point_pool # <<>> THEN point_pool[1] ELSE NextVertex

\* The turn on which a curve generator shortens its segment and returns.
ShortenedAndReturned ==
    /\ kind \in {"Bunched", "Curvy"}
    /\ pc = "loop" /\ pc' = "done"
    /\ fn_calls' > fn_calls

\* C29: whenever get_points of any of the three generators returns, the
\* result holds at least one point and its first point is
\* (origin.x + initial_radius, origin.y), the walk's first vertex; the
\* shortening on the last turn of BunchedScribble and CurvyScribble leaves
\* at least the segment's terminus_1.
ResultNotEmpty ==
    /\ [](pc = "done" =>
            /\ Len(result) >= 1
            /\ result[1] = <<origin[1] + initial_radius, origin[2]>>)
    /\ [][ShortenedAndReturned =>
            /\ length < max_length
            /\ Len(points') > Len(points)
            /\ points'[Len(points) + 1] = SegmentStart
            /\ result' = points']_vars

\* A BunchedScribble returned with its last segment cut down to terminus_1:
\* one point after whole curves, equal to the point before it, the end of
\* the previous curve.
LastSegmentCutToTerminus ==
    /\ Returned("Bunched")
    /\ Len(result) > 1
    /\ Len(result) % (n_steps + 1) = 1
    /\ result[Len(result)] = result[Len(result) - 1]
    /\ length < max_length

(***************************************************************************)
(* _shorten_curve and the list it is given.                                *)
(***************************************************************************)

\* C30: whenever _shorten_curve discards at least one point and returns a
\* non-empty list, the list the caller passed has itself been cut down to
\* the prefix returned, and the list returned is that list: the points the
\* caller passed are gone.
ShortenTruncatesPassedList ==
    (fout # <<>> /\ fout[1].points # <<>>
                 /\ Len(fout[1].points) < Len(fin.points)) =>
        /\ fout[1].returned_is_passed
        /\ fout[1].passed = fout[1].points
        /\ fout[1].passed = SubSeq(fin.points, 1, Len(fout[1].points))
        /\ fout[1].passed # fin.points

\* The tests' call: of four points passed three are returned, and three are
\* what the caller's list is left with.
PassedListLostItsLastPoint ==
    /\ fout # <<>>
    /\ fin.points = <<<<0, 0>>, <<3 * Unit, 5 * Unit>>, <<20 * Unit, 9 * Unit>>,
                      <<-10 * Unit, 9 * Unit>>>>
    /\ Len(fout[1].points) = 3
    /\ Len(fout[1].passed) = 3

====
